---- MODULE Spec2Model ----
(***************************************************************************)
(* Power Platform Utility: the PAC CLI facade (core/pac_cli.py), the       *)
(* environment directory (core/environment.py) and the background worker   *)
(* wiring of the main window (ui/main_window.py).                          *)
(***************************************************************************)
EXTENDS Integers, Sequences, FiniteSets, TLC

\* ------------------------------------------------------------------ bounds
\* Longest stdout, in tokens, the external tool writes.
MaxTokens == 5
\* Worker threads that may be alive at once.
MaxTasks == 2
\* Worker threads created in one run, the initial refresh included.
MaxStarted == 3
\* Longest catalog a read of the directory is checked over.
MaxCatalog == 3

\* ------------------------------------------------------- program constants
DefaultTimeout == 30
ExportTimeout == 300
ImportTimeout == 600
TimeoutReturncode == -1
ProbeTimeout == 10

\* --------------------------------------------------------------- JSON text
\* stdout is a sequence of tokens; "A", "B" and "C" are object literals, "N"
\* is a number literal. Tokens are the ones the stdouts a facade call is
\* checked over are made of.
LB == "["
RB == "]"
COMMA == ","
ObjAtoms == {"A", "B", "C"}
AtomTokens == ObjAtoms \cup {"N"}
Tokens == {LB, RB, COMMA, "A", "B", "N"}

RECURSIVE SeqsUpTo(_, _)
SeqsUpTo(S, n) ==
    IF n = 0 THEN {<<>>}
    ELSE LET shorter == SeqsUpTo(S, n - 1)
         IN  shorter \cup {Append(s, x) : s \in {q \in shorter : Len(q) = n - 1}, x \in S}

\* ----------------------------------------------------------- Python values
\* Every value is [k, v]: k the kind (an atom's token, "arr", "True", "False",
\* "None"), v the elements of a list.
Val(k, v) == [k |-> k, v |-> v]
PyTrue == Val("True", <<>>)
PyFalse == Val("False", <<>>)
PyNone == Val("None", <<>>)
PyList(items) == Val("arr", items)
PyBool(b) == IF b THEN PyTrue ELSE PyFalse
IsDict(x) == x.k \in ObjAtoms
IsList(x) == x.k = "arr"

\* json.loads: a recursive descent over the tokens.
ParseFail == [ok |-> FALSE, val |-> PyNone, next |-> 0]

RECURSIVE ParseValue(_, _), ParseElems(_, _, _)
ParseValue(s, i) ==
    IF i > Len(s) THEN ParseFail
    ELSE IF s[i] \in AtomTokens THEN [ok |-> TRUE, val |-> Val(s[i], <<>>), next |-> i + 1]
    ELSE IF s[i] = LB THEN
        IF i + 1 <= Len(s) /\ s[i + 1] = RB
        THEN [ok |-> TRUE, val |-> PyList(<<>>), next |-> i + 2]
        ELSE ParseElems(s, i + 1, <<>>)
    ELSE ParseFail

ParseElems(s, i, acc) ==
    LET r == ParseValue(s, i)
    IN  IF ~r.ok \/ r.next > Len(s) THEN ParseFail
        ELSE IF s[r.next] = COMMA THEN ParseElems(s, r.next + 1, Append(acc, r.val))
        ELSE IF s[r.next] = RB
        THEN [ok |-> TRUE, val |-> PyList(Append(acc, r.val)), next |-> r.next + 1]
        ELSE ParseFail

\* [ok, val]: ok is FALSE where json.loads raises JSONDecodeError.
JsonLoads(s) ==
    LET r == ParseValue(s, 1)
    IN  IF r.ok /\ r.next = Len(s) + 1
        THEN [ok |-> TRUE, val |-> r.val]
        ELSE [ok |-> FALSE, val |-> PyNone]

\* ------------------------------------------------------- the external tool
\* One invocation's outcome: whether the process could be started, how long
\* it runs (seconds), and what it leaves when it is let run to its end. The
\* runtimes lie at, just over and between the timeouts the program passes.
Runtimes == {1, 10, 11, 30, 31, 45, 300, 301, 400, 600, 601, 700}
NotStarted == [started |-> FALSE, runtime |-> 0, rc |-> 0, out |-> <<>>, err |-> ""]
Exited(runtime, rc, out) ==
    [started |-> TRUE, runtime |-> runtime, rc |-> rc, out |-> out,
     err |-> IF rc = 0 THEN "" ELSE "Error: failed"]

\* ' '.join(full_command)
RECURSIVE Join(_)
Join(words) ==
    IF Len(words) <= 1 THEN words
    ELSE <<Head(words), " ">> \o Join(Tail(words))

\* What a call returns or raises: [raised, exc, val].
Returned(v) == [raised |-> FALSE, exc |-> "", val |-> v]
Raised(msg) == [raised |-> TRUE, exc |-> msg, val |-> PyNone]
FileNotFoundMsg == "[Errno 2] No such file or directory: 'pac'"

NoCommandResult ==
    [success |-> FALSE, stdout |-> <<>>, stderr |-> "", returncode |-> 0, command |-> <<>>]

\* run_command with success taken from a non-negative exit code.
RunCommand_NonNegative(command, timeout, o) ==
    LET full_command == <<"pac">> \o command
    IN  IF ~o.started
        THEN [raised |-> TRUE, exc |-> FileNotFoundMsg, res |-> NoCommandResult]
        ELSE IF o.runtime > timeout
        THEN [raised |-> FALSE, exc |-> "",
              res |-> [success |-> FALSE, stdout |-> <<>>, stderr |-> "Command timed out",
                       returncode |-> TimeoutReturncode, command |-> Join(full_command)]]
        ELSE [raised |-> FALSE, exc |-> "",
              res |-> [success |-> o.rc >= 0, stdout |-> o.out, stderr |-> o.err,
                       returncode |-> o.rc, command |-> Join(full_command)]]

\* run_command without its except clause: TimeoutExpired propagates.
RunCommand_NoExcept(command, timeout, o) ==
    LET full_command == <<"pac">> \o command
    IN  IF ~o.started
        THEN [raised |-> TRUE, exc |-> FileNotFoundMsg, res |-> NoCommandResult]
        ELSE IF o.runtime > timeout
        THEN [raised |-> TRUE, exc |-> "Command timed out", res |-> NoCommandResult]
        ELSE [raised |-> FALSE, exc |-> "",
              res |-> [success |-> o.rc = 0, stdout |-> o.out, stderr |-> o.err,
                       returncode |-> o.rc, command |-> Join(full_command)]]

\* PACCLIWrapper.run_command: [raised, exc, res].
RunCommand(command, timeout, o) ==
    LET full_command == <<"pac">> \o command
    IN  IF ~o.started
        THEN [raised |-> TRUE, exc |-> FileNotFoundMsg, res |-> NoCommandResult]
        ELSE IF o.runtime > timeout
        THEN [raised |-> FALSE, exc |-> "",
              res |-> [success |-> FALSE, stdout |-> <<>>, stderr |-> "Command timed out",
                       returncode |-> TimeoutReturncode, command |-> Join(full_command)]]
        ELSE [raised |-> FALSE, exc |-> "",
              res |-> [success |-> o.rc = 0, stdout |-> o.out, stderr |-> o.err,
                       returncode |-> o.rc, command |-> Join(full_command)]]

\* The listing with None returned on a decode failure.
DecodeListing_NoneOnBadJson(r) ==
    IF r.raised THEN Raised(r.exc)
    ELSE IF r.res.success
    THEN LET d == JsonLoads(r.res.stdout)
         IN  IF d.ok THEN Returned(d.val) ELSE Returned(PyNone)
    ELSE Returned(PyList(<<>>))

\* The listing keeping only the records that are mappings.
DecodeListing_OnlyDicts(r) ==
    IF r.raised THEN Raised(r.exc)
    ELSE IF r.res.success
    THEN LET d == JsonLoads(r.res.stdout)
         IN  IF ~d.ok THEN Returned(PyList(<<>>))
             ELSE IF d.val.k = "arr"
             THEN Returned(PyList(SelectSeq(d.val.v, LAMBDA e : e.k \in {"A", "B"})))
             ELSE Returned(d.val)
    ELSE Returned(PyList(<<>>))

\* The shape shared by get_environments and get_solutions: decode stdout on
\* success, the empty list otherwise.
DecodeListing(r) ==
    IF r.raised THEN Raised(r.exc)
    ELSE IF r.res.success
    THEN LET d == JsonLoads(r.res.stdout)
         IN  IF d.ok THEN Returned(d.val) ELSE Returned(PyList(<<>>))
    ELSE Returned(PyList(<<>>))

\* The shape shared by the boolean operations: the result's success flag.
SuccessFlag(r) ==
    IF r.raised THEN Raised(r.exc) ELSE Returned(PyBool(r.res.success))

GetEnvironmentsCommand == <<"org", "list", "--json">>
\* get_environments raising when the listing command fails.
GetEnvironments_RaisesOnFailure(o) ==
    LET r == RunCommand(GetEnvironmentsCommand, DefaultTimeout, o)
    IN  IF ~r.raised /\ ~r.res.success THEN Raised(r.res.stderr) ELSE DecodeListing(r)

GetEnvironments(o) == DecodeListing(RunCommand(GetEnvironmentsCommand, DefaultTimeout, o))

SelectEnvironmentCommand(environment_url) == <<"org", "select", "--environment", environment_url>>
SelectEnvironment(environment_url, o) ==
    SuccessFlag(RunCommand(SelectEnvironmentCommand(environment_url), DefaultTimeout, o))

GetSolutionsCommand == <<"solution", "list", "--json">>
GetSolutions(o) == DecodeListing(RunCommand(GetSolutionsCommand, DefaultTimeout, o))

\* The export command with the managed flag appended whatever was asked.
ExportSolutionCommand_AlwaysManaged(solution_name, output_path, managed) ==
    <<"solution", "export", "--name", solution_name, "--path", output_path, "--managed">>

ExportSolutionCommand(solution_name, output_path, managed) ==
    <<"solution", "export", "--name", solution_name, "--path", output_path>>
        \o (IF managed THEN <<"--managed">> ELSE <<>>)
ExportSolution(solution_name, output_path, managed, o) ==
    SuccessFlag(RunCommand(ExportSolutionCommand(solution_name, output_path, managed),
                           ExportTimeout, o))

ImportSolutionCommand(solution_path, publish_workflows) ==
    <<"solution", "import", "--path", solution_path>>
        \o (IF publish_workflows THEN <<"--publish-changes">> ELSE <<>>)
ImportSolution(solution_path, publish_workflows, o) ==
    SuccessFlag(RunCommand(ImportSolutionCommand(solution_path, publish_workflows),
                           ImportTimeout, o))

GetCurrentEnvironmentCommand == <<"org", "who", "--json">>

\* The identity query answering a failure with the empty list.
GetCurrentEnvironment_EmptyOnFailure(o) ==
    DecodeListing(RunCommand(GetCurrentEnvironmentCommand, DefaultTimeout, o))

GetCurrentEnvironment(o) ==
    LET r == RunCommand(GetCurrentEnvironmentCommand, DefaultTimeout, o)
    IN  IF r.raised THEN Raised(r.exc)
        ELSE IF r.res.success
        THEN LET d == JsonLoads(r.res.stdout)
             IN  IF d.ok THEN Returned(d.val) ELSE Returned(PyNone)
        ELSE Returned(PyNone)

AuthenticateCommand == <<"auth", "create">>
Authenticate(o) == SuccessFlag(RunCommand(AuthenticateCommand, DefaultTimeout, o))

\* PACCLIError's messages.
ProbeFailedMsg == "PAC CLI not found or not accessible"
ProbeTimedOutMsg == "PAC CLI command timed out"
NotInstalledMsg == "PAC CLI not installed. Please install Power Platform CLI first."
PACCLIErrorMsgs == {ProbeFailedMsg, ProbeTimedOutMsg, NotInstalledMsg}

\* The version probe accepting every exit code.
CheckPacInstallation_AnyExit(o) ==
    IF ~o.started THEN Raised(NotInstalledMsg)
    ELSE IF o.runtime > ProbeTimeout THEN Raised(ProbeTimedOutMsg)
    ELSE Returned(PyTrue)

\* PACCLIWrapper._check_pac_installation: subprocess.run(["pac", "--version"],
\* timeout=10); True on exit code 0, PACCLIError otherwise.
CheckPacInstallation(o) ==
    IF ~o.started THEN Raised(NotInstalledMsg)
    ELSE IF o.runtime > ProbeTimeout THEN Raised(ProbeTimedOutMsg)
    ELSE IF o.rc = 0 THEN Returned(PyTrue)
    ELSE Raised(ProbeFailedMsg)

\* ------------------------------------------------- the environment directory
\* A raw record's fields; Missing marks a key the record does not have and
\* NoneStr a JSON null. Record "C" has a null name, a display name it shares
\* with "B" and no timestamp.
Missing == "<missing>"
NoneStr == "<None>"
RawRecord(atom) ==
    IF atom = "C"
    THEN [EnvironmentName |-> NoneStr, FriendlyName |-> "Development US",
          EnvironmentUrl |-> "https://c.crm.dynamics.com", Region |-> "",
          EnvironmentType |-> NoneStr, State |-> Missing,
          CreatedTime |-> Missing,
          UniqueName |-> Missing]
    ELSE IF atom = "A"
    THEN [EnvironmentName |-> "prod-eu", FriendlyName |-> "Production EU",
          EnvironmentUrl |-> "https://prod-eu.crm.dynamics.com", Region |-> "europe",
          EnvironmentType |-> "Production", State |-> "Ready",
          CreatedTime |-> "2024-01-15T10:30:00Z",
          UniqueName |-> "sol_a"]
    ELSE [EnvironmentName |-> "dev-us", FriendlyName |-> "Development US",
          EnvironmentUrl |-> "https://dev-us.crm.dynamics.com", Region |-> Missing,
          EnvironmentType |-> "Sandbox", State |-> "Ready",
          CreatedTime |-> "not-a-date",
          UniqueName |-> Missing]

\* dict.get(key, default) and dict.get(key)
DictGet(d, key, default) == IF d[key] = Missing THEN default ELSE d[key]
DictGetOrNone(d, key) == DictGet(d, key, NoneStr)

\* datetime.strptime(date_string, fmt): the parsed time, or NoneStr where it
\* raises ValueError.
Formats == <<"%Y-%m-%dT%H:%M:%S.%fZ", "%Y-%m-%dT%H:%M:%SZ", "%Y-%m-%d %H:%M:%S">>
Strptime(date_string, fmt) ==
    IF date_string = "2024-01-15T10:30:00.123456Z" /\ fmt = Formats[1]
    THEN "datetime(2024, 1, 15, 10, 30, 0, 123456)"
    ELSE IF date_string = "2024-01-15T10:30:00Z" /\ fmt = Formats[2]
    THEN "datetime(2024, 1, 15, 10, 30, 0)"
    ELSE IF date_string = "2024-01-15 10:30:00" /\ fmt = Formats[3]
    THEN "datetime(2024, 1, 15, 10, 30, 0)"
    ELSE NoneStr

\* _parse_datetime giving back the text it could not parse.
ParseDatetime_KeepsText(date_string) ==
    IF date_string = NoneStr \/ date_string = "" THEN NoneStr
    ELSE date_string

\* EnvironmentManager._parse_datetime
RECURSIVE TryFormats(_, _)
TryFormats(date_string, i) ==
    IF i > Len(Formats) THEN NoneStr
    ELSE IF Strptime(date_string, Formats[i]) # NoneStr
    THEN Strptime(date_string, Formats[i])
    ELSE TryFormats(date_string, i + 1)
ParseDatetime(date_string) ==
    IF date_string = NoneStr \/ date_string = "" THEN NoneStr
    ELSE TryFormats(date_string, 1)

\* The PowerPlatformEnvironment the refresh loop builds from one raw record.
PowerPlatformEnvironment(env) ==
    [name |-> DictGet(env, "EnvironmentName", ""),
     display_name |-> DictGet(env, "FriendlyName", ""),
     url |-> DictGet(env, "EnvironmentUrl", ""),
     region |-> DictGet(env, "Region", ""),
     environment_type |-> DictGet(env, "EnvironmentType", ""),
     state |-> DictGet(env, "State", ""),
     created_time |-> ParseDatetime(DictGetOrNone(env, "CreatedTime"))]

\* None where an environment is expected.
NoEnvironment ==
    [name |-> NoneStr, display_name |-> NoneStr, url |-> NoneStr, region |-> NoneStr,
     environment_type |-> NoneStr, state |-> NoneStr, created_time |-> NoneStr]

\* ---- strings: the characters of the strings in use, str.lower and the
\* substring test of the in operator
Chars(str) ==
    CASE str = "" -> <<>>
      [] str = "prod" -> <<"p", "r", "o", "d">>
      [] str = "PROD" -> <<"P", "R", "O", "D">>
      [] str = "us" -> <<"u", "s">>
      [] str = "xyz" -> <<"x", "y", "z">>
      [] str = "prod-eu" -> <<"p", "r", "o", "d", "-", "e", "u">>
      [] str = "dev-us" -> <<"d", "e", "v", "-", "u", "s">>
      [] str = "Production EU" ->
            <<"P", "r", "o", "d", "u", "c", "t", "i", "o", "n", " ", "E", "U">>
      [] str = "Development US" ->
            <<"D", "e", "v", "e", "l", "o", "p", "m", "e", "n", "t", " ", "U", "S">>

LowerChar(c) ==
    CASE c = "D" -> "d" [] c = "E" -> "e" [] c = "O" -> "o" [] c = "P" -> "p"
      [] c = "R" -> "r" [] c = "S" -> "s" [] c = "U" -> "u" [] OTHER -> c

Lower(chars) == [i \in 1..Len(chars) |-> LowerChar(chars[i])]

\* needle in haystack
Contains(haystack, needle) ==
    \E i \in 0..(Len(haystack) - Len(needle)) :
        \A j \in 1..Len(needle) : haystack[i + j] = needle[j]

NoneLowerMsg == "'NoneType' object has no attribute 'lower'"

\* The filter of search_environments for one environment: "match", "skip", or
\* "raise" where .lower() is called on None. The or evaluates display_name
\* only when name does not match.
SearchTest(env, query_lower) ==
    IF env.name = NoneStr THEN "raise"
    ELSE IF Contains(Lower(Chars(env.name)), query_lower) THEN "match"
    ELSE IF env.display_name = NoneStr THEN "raise"
    ELSE IF Contains(Lower(Chars(env.display_name)), query_lower) THEN "match"
    ELSE "skip"

RECURSIVE SearchFrom(_, _, _, _)
SearchFrom(environments, query_lower, i, acc) ==
    IF i > Len(environments) THEN Returned(PyList(acc))
    ELSE LET test == SearchTest(environments[i], query_lower)
         IN  IF test = "raise" THEN Raised(NoneLowerMsg)
             ELSE SearchFrom(environments, query_lower, i + 1,
                             IF test = "match" THEN Append(acc, environments[i]) ELSE acc)

\* EnvironmentManager.search_environments
SearchEnvironments(environments, query) ==
    SearchFrom(environments, Lower(Chars(query)), 1, <<>>)

\* x or "Unknown"
OrUnknown(x) == IF x = NoneStr \/ x = "" THEN "Unknown" ELSE x

\* counts[key] = counts.get(key, 0) + 1
Increment(counts, key) ==
    [k \in DOMAIN counts \cup {key} |->
        IF k = key THEN (IF k \in DOMAIN counts THEN counts[k] ELSE 0) + 1 ELSE counts[k]]

EmptyCounts == [k \in {} |-> 0]

RECURSIVE SummaryFrom(_, _, _)
SummaryFrom(environments, i, summary) ==
    IF i > Len(environments) THEN summary
    ELSE LET env == environments[i]
         IN  SummaryFrom(environments, i + 1,
                 [summary EXCEPT
                     !.by_type = Increment(@, OrUnknown(env.environment_type)),
                     !.by_region = Increment(@, OrUnknown(env.region)),
                     !.by_state = Increment(@, OrUnknown(env.state))])

\* The summary counting only the environment type.
GetEnvironmentSummary_TypeOnly(environments) ==
    [SummaryFrom(environments, 1,
        [total |-> Len(environments), by_type |-> EmptyCounts, by_region |-> EmptyCounts,
         by_state |-> EmptyCounts])
     EXCEPT !.by_region = EmptyCounts, !.by_state = EmptyCounts]

\* EnvironmentManager.get_environment_summary
GetEnvironmentSummary(environments) ==
    SummaryFrom(environments, 1,
        [total |-> Len(environments), by_type |-> EmptyCounts, by_region |-> EmptyCounts,
         by_state |-> EmptyCounts])

\* ------------------------------------------------------ one facade call
ListingOps == {"get_environments", "get_solutions"}
DecodeOps == ListingOps \cup {"get_current_environment"}
FlagOps == {"select_environment", "export_solution", "import_solution", "authenticate"}
FacadeOps == DecodeOps \cup FlagOps

\* The arguments of a call: [url, name, path, flag].
NoArgs == [url |-> "", name |-> "", path |-> "", flag |-> FALSE]
FacadeArgs(op) ==
    IF op = "select_environment" THEN {[NoArgs EXCEPT !.url = "https://a.crm.dynamics.com"]}
    ELSE IF op = "export_solution"
    THEN {[NoArgs EXCEPT !.name = "sol_a", !.path = "/out", !.flag = m] : m \in BOOLEAN}
    ELSE IF op = "import_solution"
    THEN {[NoArgs EXCEPT !.path = "/in/sol_a.zip", !.flag = p] : p \in BOOLEAN}
    ELSE {NoArgs}

FacadeCommand(op, a) ==
    CASE op = "get_environments" -> GetEnvironmentsCommand
      [] op = "select_environment" -> SelectEnvironmentCommand(a.url)
      [] op = "get_solutions" -> GetSolutionsCommand
      [] op = "export_solution" -> ExportSolutionCommand(a.name, a.path, a.flag)
      [] op = "import_solution" -> ImportSolutionCommand(a.path, a.flag)
      [] op = "get_current_environment" -> GetCurrentEnvironmentCommand
      [] OTHER -> AuthenticateCommand

\* Every operation calling run_command with the default timeout.
FacadeTimeout_AllDefault(op) == DefaultTimeout

FacadeTimeout(op) ==
    CASE op = "export_solution" -> ExportTimeout
      [] op = "import_solution" -> ImportTimeout
      [] OTHER -> DefaultTimeout

FacadeCall(op, a, o) ==
    CASE op = "get_environments" -> GetEnvironments(o)
      [] op = "select_environment" -> SelectEnvironment(a.url, o)
      [] op = "get_solutions" -> GetSolutions(o)
      [] op = "export_solution" -> ExportSolution(a.name, a.path, a.flag, o)
      [] op = "import_solution" -> ImportSolution(a.path, a.flag, o)
      [] op = "get_current_environment" -> GetCurrentEnvironment(o)
      [] OTHER -> Authenticate(o)

\* The outcomes one call is checked over: every stdout up to MaxTokens for the
\* operations that decode it, for a process that ends at once; the other
\* runtimes and the operations that read only the exit code with two stdouts.
AllStdouts == SeqsUpTo(Tokens, MaxTokens)
FacadeOutcomes(op) ==
    {NotStarted}
        \cup {Exited(rt, rc, out) : rt \in Runtimes, rc \in {0, 1}, out \in {<<>>, <<LB, RB>>}}
        \cup (IF op \in DecodeOps
              THEN {Exited(1, rc, out) : rc \in {0, 1}, out \in AllStdouts}
              ELSE {})

\* The outcomes the version probe is checked over.
ProbeOutcomes ==
    {NotStarted, Exited(1, 0, <<"N">>), Exited(1, 1, <<>>), Exited(45, 0, <<"N">>),
     Exited(10, 0, <<"N">>), Exited(11, 0, <<"N">>)}

\* f_probe is the version probe's outcome and f_init what __init__ came to:
\* pc is "new" before it, "built" when it returned, "failed" when it raised exc.
VARIABLES f_op, f_args, f_outcome, f_pc, f_cmd, f_result, f_probe, f_init

facadeVars == <<f_op, f_args, f_outcome, f_pc, f_cmd, f_result, f_probe, f_init>>

NotConstructed == [pc |-> "new", exc |-> ""]
Constructed == [pc |-> "built", exc |-> ""]

TaskIds == 1..MaxTasks

\* A worker thread: the operation it runs (kind), where it stands (pc), the
\* arguments bound at its creation (args), the environment select_environment
\* was given (env), the value get_environments returned and the loop's
\* position in it (data, idx), what the operation returned or raised (op);
\* and, kept for the properties, how the external call ended (remote),
\* whether refresh has changed the catalog's contents (wrote) and the signals
\* emitted (emitted).
IdleTask ==
    [kind |-> "none", pc |-> "idle", args |-> NoArgs, env |-> NoEnvironment,
     data |-> PyNone, idx |-> 0, op |-> Returned(PyNone),
     remote |-> "none", wrote |-> FALSE, emitted |-> <<>>]

NoCombo == [items |-> <<>>, index |-> 0]

VARIABLES
    _environments,          \* EnvironmentManager._environments
    _current_environment,   \* EnvironmentManager._current_environment
    current_environment,    \* MainWindow.current_environment
    environment_combo,      \* the items' data and the current index (0: none)
    export_solution_combo,  \* the items' data and the current index (0: none)
    progress_visible,       \* progress_bar.isVisible()
    worker,                 \* MainWindow.worker: the thread created last
    tasks,                  \* the worker threads
    queue,                  \* signals emitted and not yet delivered to their slots
    refreshed_members,      \* the environments a refresh has put in the catalog
    started                 \* the worker threads created so far

managerVars == <<_environments, _current_environment>>
windowVars ==
    <<current_environment, environment_combo, export_solution_combo, progress_visible, worker>>
historyVars == <<refreshed_members>>
appVars == <<managerVars, windowVars, tasks, queue, historyVars, started>>

\* One read of the directory under check: the query search_environments is
\* given (d_query), where the read stands (d_pc), what it returned or raised
\* (d_result).
VARIABLES d_query, d_pc, d_result

directoryVars == <<d_query, d_pc, d_result>>

\* What a step of the application leaves alone.
sideVars == <<facadeVars, directoryVars>>

vars == <<facadeVars, appVars, directoryVars>>

NoCmd == [raised |-> FALSE, exc |-> "", res |-> NoCommandResult]

InitFacade ==
    /\ f_op \in FacadeOps
    /\ f_args \in FacadeArgs(f_op)
    /\ f_outcome \in FacadeOutcomes(f_op)
    /\ f_pc = "start"
    /\ f_cmd = NoCmd
    /\ f_result = Returned(PyNone)
    /\ f_probe \in ProbeOutcomes
    /\ f_init = NotConstructed

\* PACCLIWrapper.__init__: the version probe is made; the facade is built or
\* PACCLIError is raised to whoever constructs it.
FacadeConstruct ==
    /\ f_init.pc = "new"
    /\ LET r == CheckPacInstallation(f_probe)
       IN  f_init' = IF r.raised THEN [pc |-> "failed", exc |-> r.exc] ELSE Constructed
    /\ UNCHANGED <<f_op, f_args, f_outcome, f_pc, f_cmd, f_result, f_probe>>
    /\ UNCHANGED <<appVars, directoryVars>>

\* The operation's run_command call returns or raises.
FacadeRunCommand ==
    /\ f_init.pc = "built"
    /\ f_pc = "start"
    /\ f_cmd' = RunCommand(FacadeCommand(f_op, f_args), FacadeTimeout(f_op), f_outcome)
    /\ f_pc' = "ran"
    /\ UNCHANGED <<f_op, f_args, f_outcome, f_result, f_probe, f_init>>
    /\ UNCHANGED <<appVars, directoryVars>>

\* The operation returns or raises.
FacadeReturn ==
    /\ f_pc = "ran"
    /\ f_result' = FacadeCall(f_op, f_args, f_outcome)
    /\ f_pc' = "done"
    /\ UNCHANGED <<f_op, f_args, f_outcome, f_cmd, f_probe, f_init>>
    /\ UNCHANGED <<appVars, directoryVars>>

NextFacade == FacadeConstruct \/ FacadeRunCommand \/ FacadeReturn

\* ------------------------------------------------------- the application
\* The outcomes the running application's calls are checked over.
ListingOutcomes ==
    {NotStarted, Exited(1, 1, <<>>),
     Exited(1, 0, <<LB, "A", COMMA, "B", RB>>), Exited(1, 0, <<LB, "C", RB>>),
     Exited(1, 0, <<LB, "A", COMMA, "N", RB>>),
     Exited(45, 0, <<LB, "A", RB>>), Exited(1, 0, <<LB, COMMA>>)}
FlagOutcomes == {NotStarted, Exited(700, 0, <<>>), Exited(1, 1, <<>>), Exited(1, 0, <<>>)}

\* How one external call ended, as the timeout it was given sorts it.
Remote(o, timeout) ==
    IF ~o.started THEN "notstarted"
    ELSE IF o.runtime > timeout THEN "timeout"
    ELSE IF o.rc # 0 THEN "nonzero"
    ELSE "ok"

\* MainWindow.__init__: no environment is chosen and the initial refresh has
\* been started.
InitWindow ==
    /\ current_environment = NoEnvironment
    /\ environment_combo = NoCombo
    /\ export_solution_combo = NoCombo
    /\ progress_visible = TRUE
    /\ worker = 1
    /\ tasks = [t \in TaskIds |->
                  IF t = 1 THEN [IdleTask EXCEPT !.kind = "refresh", !.pc = "call"] ELSE IdleTask]
    /\ queue = <<>>
    /\ refreshed_members = {}
    /\ started = 1

\* EnvironmentManager.__init__ and MainWindow.__init__
InitApp ==
    /\ _environments = <<>>
    /\ _current_environment = NoEnvironment
    /\ InitWindow

\* No read of the directory is under check.
DirectoryIdle ==
    /\ d_query = ""
    /\ d_pc = "idle"
    /\ d_result = Returned(PyNone)

\* The facade the application holds has been built; no facade call is under
\* check while the application runs.
FacadeIdle ==
    /\ f_probe = Exited(1, 0, <<"N">>)
    /\ f_init = Constructed
    /\ f_op = "authenticate"
    /\ f_args = NoArgs
    /\ f_outcome = NotStarted
    /\ f_pc = "idle"
    /\ f_cmd = NoCmd
    /\ f_result = Returned(PyNone)

\* ---- the presentation context: the user's actions
HasFreeSlot == \E t \in TaskIds : tasks[t].kind = "none"
FreeSlot == CHOOSE t \in TaskIds : tasks[t].kind = "none" /\ \A u \in 1..(t - 1) : tasks[u].kind # "none"

\* show_progress(True); self.worker = WorkerThread(...); connect; start
StartWorker(kind, args) ==
    /\ HasFreeSlot
    /\ started < MaxStarted
    /\ started' = started + 1
    /\ progress_visible' = TRUE
    /\ tasks' = [tasks EXCEPT ![FreeSlot] = [IdleTask EXCEPT !.kind = kind, !.pc = "call", !.args = args]]
    /\ worker' = FreeSlot
    /\ UNCHANGED queue

\* MainWindow.refresh_environments
MainWindowRefreshEnvironments ==
    /\ StartWorker("refresh", NoArgs)
    /\ UNCHANGED <<managerVars, current_environment, environment_combo, export_solution_combo,
                   historyVars, sideVars>>

\* refresh_environments emptying the catalog before the listing is fetched.
RefreshCall_ResetsFirst(t) ==
    /\ tasks[t].kind = "refresh" /\ tasks[t].pc = "call"
    /\ _environments' = <<>>
    /\ \E o \in ListingOutcomes :
          LET r == GetEnvironments(o)
          IN  tasks' = [tasks EXCEPT ![t] =
                  IF r.raised
                  THEN [@ EXCEPT !.pc = "emit", !.op = Returned(PyFalse),
                                 !.remote = Remote(o, DefaultTimeout)]
                  ELSE [@ EXCEPT !.pc = "reset", !.data = r.val,
                                 !.remote = Remote(o, DefaultTimeout)]]
    /\ UNCHANGED <<_current_environment, windowVars, queue, historyVars, sideVars, started>>

\* ---- EnvironmentManager.refresh_environments, on its worker thread
\* env_data = self.pac_cli.get_environments(), or the except clause.
RefreshCall(t) ==
    /\ tasks[t].kind = "refresh" /\ tasks[t].pc = "call"
    /\ \E o \in ListingOutcomes :
          LET r == GetEnvironments(o)
          IN  tasks' = [tasks EXCEPT ![t] =
                  IF r.raised
                  THEN [@ EXCEPT !.pc = "emit", !.op = Returned(PyFalse),
                                 !.remote = Remote(o, DefaultTimeout)]
                  ELSE [@ EXCEPT !.pc = "reset", !.data = r.val,
                                 !.remote = Remote(o, DefaultTimeout)]]
    /\ UNCHANGED <<managerVars, windowVars, queue, historyVars, sideVars, started>>

\* The reset dropping the selection with the catalog.
RefreshReset_DropsSelection(t) ==
    /\ tasks[t].kind = "refresh" /\ tasks[t].pc = "reset"
    /\ _environments' = <<>>
    /\ _current_environment' = NoEnvironment
    /\ tasks' = [tasks EXCEPT ![t].pc = "loop", ![t].idx = 0,
                             ![t].wrote = (_environments # <<>>)]
    /\ UNCHANGED <<windowVars, queue, refreshed_members, sideVars, started>>

\* self._environments = []
RefreshReset(t) ==
    /\ tasks[t].kind = "refresh" /\ tasks[t].pc = "reset"
    /\ _environments' = <<>>
    /\ tasks' = [tasks EXCEPT ![t].pc = "loop", ![t].idx = 0,
                             ![t].wrote = (_environments # <<>>)]
    /\ UNCHANGED <<_current_environment, windowVars, queue, refreshed_members, sideVars, started>>

\* One round of the for loop: the next record is converted and appended; the
\* loop ends (return True); or iterating or env.get raises (return False).
RefreshLoop(t) ==
    /\ tasks[t].kind = "refresh" /\ tasks[t].pc = "loop"
    /\ LET env_data == tasks[t].data
           i == tasks[t].idx + 1
       IN  IF IsList(env_data) /\ i <= Len(env_data.v) /\ IsDict(env_data.v[i])
           THEN LET environment == PowerPlatformEnvironment(RawRecord(env_data.v[i].k))
                IN  /\ _environments' = Append(_environments, environment)
                    /\ refreshed_members' = refreshed_members \cup {environment}
                    /\ tasks' = [tasks EXCEPT ![t].idx = i, ![t].wrote = TRUE]
           ELSE /\ tasks' = [tasks EXCEPT ![t] =
                       [@ EXCEPT !.pc = "emit", !.data = PyNone, !.idx = 0,
                                 !.op = Returned(PyBool(IsList(env_data) /\ i > Len(env_data.v)))]]
                /\ UNCHANGED <<_environments, historyVars>>
    /\ UNCHANGED <<_current_environment, windowVars, queue, sideVars, started>>

\* run with the finished signal emitted after the try statement.
WorkerSignals_FinishedAlways(op) ==
    IF op.raised
    THEN <<[sig |-> "error", val |-> PyNone, msg |-> op.exc],
           [sig |-> "finished", val |-> PyNone, msg |-> ""]>>
    ELSE <<[sig |-> "finished", val |-> op.val, msg |-> ""]>>

\* ---- WorkerThread.run, after the operation: the signals it emits
WorkerSignals(op) ==
    IF op.raised
    THEN <<[sig |-> "error", val |-> PyNone, msg |-> op.exc]>>
    ELSE <<[sig |-> "finished", val |-> op.val, msg |-> ""]>>

Posted(t, kind, signals) ==
    [i \in 1..Len(signals) |->
        [task |-> t, kind |-> kind, sig |-> signals[i].sig, val |-> signals[i].val,
         msg |-> signals[i].msg]]

\* run with an except clause that emits nothing.
WorkerEnds_SwallowsErrors(t, op) ==
    IF op.raised
    THEN /\ queue' = queue
         /\ tasks' = [tasks EXCEPT ![t].pc = "swallowed", ![t].op = op]
    ELSE LET signals == WorkerSignals(op)
         IN  /\ queue' = queue \o Posted(t, tasks[t].kind, signals)
             /\ tasks' = [tasks EXCEPT ![t] =
                    [IdleTask EXCEPT !.kind = tasks[t].kind, !.pc = "done", !.op = op,
                                     !.emitted = signals]]

\* The thread of task t, its operation having returned or raised op, emits
\* and ends; what its frame held is gone.
WorkerEnds(t, op) ==
    LET signals == WorkerSignals(op)
    IN  /\ queue' = queue \o Posted(t, tasks[t].kind, signals)
        /\ tasks' = [tasks EXCEPT ![t] =
               [IdleTask EXCEPT !.kind = tasks[t].kind, !.pc = "done", !.op = op,
                                !.emitted = signals]]

\* WorkerThread.run once refresh_worker or connect_worker has returned.
WorkerEmit(t) ==
    /\ tasks[t].pc = "emit"
    /\ WorkerEnds(t, tasks[t].op)
    /\ UNCHANGED <<managerVars, windowVars, historyVars, sideVars, started>>

\* ---- the presentation context: the slots, one queued signal at a time
Delivered(kind, sig) ==
    /\ queue # <<>>
    /\ Head(queue).kind = kind
    /\ Head(queue).sig = sig
    /\ queue' = Tail(queue)
    /\ tasks' = [tasks EXCEPT ![Head(queue).task] = IdleTask]

\* MainWindow.on_worker_error
OnWorkerError ==
    /\ queue # <<>>
    /\ Head(queue).sig = "error"
    /\ queue' = Tail(queue)
    /\ tasks' = [tasks EXCEPT ![Head(queue).task] = IdleTask]
    /\ progress_visible' = FALSE
    /\ UNCHANGED <<managerVars, current_environment, environment_combo, export_solution_combo,
                   worker, historyVars, sideVars, started>>

\* QComboBox.currentData() and currentText() of the environment combo.
ComboCurrentData(combo) ==
    IF combo.index = 0 THEN NoEnvironment ELSE combo.items[combo.index]
ComboCurrentText(combo) ==
    IF combo.index = 0 THEN "" ELSE combo.items[combo.index].display_name

\* MainWindow.on_environment_changed: current_environment afterwards.
OnEnvironmentChanged(current_data, current) ==
    IF current_data # NoEnvironment THEN current_data ELSE current

\* currentTextChanged is emitted, and the slot called, when the current text
\* is no longer old_text.
AfterComboChange(old_text, combo, current) ==
    IF ComboCurrentText(combo) # old_text
    THEN OnEnvironmentChanged(ComboCurrentData(combo), current)
    ELSE current

\* The user picks another item of the environment combo.
UserSelectEnvironment(i) ==
    /\ i # environment_combo.index
    /\ environment_combo' = [environment_combo EXCEPT !.index = i]
    /\ current_environment' =
          AfterComboChange(ComboCurrentText(environment_combo), environment_combo',
                           current_environment)
    /\ UNCHANGED <<managerVars, export_solution_combo, progress_visible, worker, tasks, queue,
                   historyVars, sideVars, started>>

\* The user picks another item of the export combo.
UserSelectSolution(i) ==
    /\ i # export_solution_combo.index
    /\ export_solution_combo' = [export_solution_combo EXCEPT !.index = i]
    /\ UNCHANGED <<managerVars, current_environment, environment_combo, progress_visible, worker,
                   tasks, queue, historyVars, sideVars, started>>

\* What a slot that starts no worker leaves alone.
NothingStarted ==
    UNCHANGED <<managerVars, windowVars, tasks, queue, historyVars, sideVars, started>>
StartedOnly ==
    UNCHANGED <<managerVars, current_environment, environment_combo, export_solution_combo,
                historyVars, sideVars>>

\* MainWindow.connect_to_environment
ConnectToEnvironment ==
    IF current_environment = NoEnvironment
    THEN NothingStarted
    ELSE StartWorker("connect", NoArgs) /\ StartedOnly

\* MainWindow.authenticate
MainWindowAuthenticate == StartWorker("auth", NoArgs) /\ StartedOnly

\* MainWindow.list_solutions
ListSolutions ==
    IF current_environment = NoEnvironment
    THEN NothingStarted
    ELSE StartWorker("solutions", NoArgs) /\ StartedOnly

\* MainWindow.import_solution, with the text of the import path field.
MainWindowImportSolution(file_path) ==
    IF file_path = "" \/ current_environment = NoEnvironment
    THEN NothingStarted
    ELSE StartWorker("import", [NoArgs EXCEPT !.path = file_path]) /\ StartedOnly

\* MainWindow.export_solution, with the text of the export path field.
MainWindowExportSolution(export_path) ==
    LET solution_name ==
            IF export_solution_combo.index = 0 THEN ""
            ELSE export_solution_combo.items[export_solution_combo.index]
    IN  IF solution_name = "" \/ export_path = "" \/ current_environment = NoEnvironment
        THEN NothingStarted
        ELSE /\ StartWorker("export", [NoArgs EXCEPT !.name = solution_name, !.path = export_path])
             /\ StartedOnly

\* ---- EnvironmentManager.select_environment, on its worker thread
\* "if success:" after self.pac_cli.select_environment(environment.url); the
\* except clause takes a raised call to return False.
SelectSucceeded_IgnoringResult(r) == ~r.raised
SelectSucceeded(r) == ~r.raised /\ r.val = PyTrue

\* connect_worker passing an environment built from the combo's current text.
ConnectCall_FromText(t) ==
    /\ tasks[t].kind = "connect" /\ tasks[t].pc = "call"
    /\ \E o \in FlagOutcomes :
          LET text == ComboCurrentText(environment_combo)
              environment == [NoEnvironment EXCEPT !.name = text, !.display_name = text,
                                                   !.url = text]
              r == SelectEnvironment(environment.url, o)
          IN  tasks' = [tasks EXCEPT ![t] =
                  IF SelectSucceeded(r)
                  THEN [@ EXCEPT !.pc = "assign", !.env = environment,
                                 !.remote = Remote(o, DefaultTimeout)]
                  ELSE [@ EXCEPT !.pc = "emit", !.env = environment, !.op = Returned(PyFalse),
                                 !.remote = Remote(o, DefaultTimeout)]]
    /\ UNCHANGED <<managerVars, windowVars, queue, historyVars, sideVars, started>>

\* connect_worker reads self.current_environment and makes the remote call.
ConnectCall(t) ==
    /\ tasks[t].kind = "connect" /\ tasks[t].pc = "call"
    /\ \E o \in FlagOutcomes :
          LET environment == current_environment
              r == SelectEnvironment(environment.url, o)
          IN  tasks' = [tasks EXCEPT ![t] =
                  IF SelectSucceeded(r)
                  THEN [@ EXCEPT !.pc = "assign", !.env = environment,
                                 !.remote = Remote(o, DefaultTimeout)]
                  ELSE [@ EXCEPT !.pc = "emit", !.env = environment, !.op = Returned(PyFalse),
                                 !.remote = Remote(o, DefaultTimeout)]]
    /\ UNCHANGED <<managerVars, windowVars, queue, historyVars, sideVars, started>>

\* self._current_environment = environment; return True
ConnectAssign(t) ==
    /\ tasks[t].kind = "connect" /\ tasks[t].pc = "assign"
    /\ _current_environment' = tasks[t].env
    /\ tasks' = [tasks EXCEPT ![t].pc = "emit", ![t].op = Returned(PyTrue)]
    /\ UNCHANGED <<_environments, windowVars, queue, refreshed_members, sideVars, started>>

\* ---- WorkerThread.run over the workers that only call the facade: the call
\* touches nothing shared, so the call and the emission are one step.
AuthCall(t) ==
    /\ tasks[t].kind = "auth" /\ tasks[t].pc = "call"
    /\ \E o \in FlagOutcomes : WorkerEnds(t, Authenticate(o))
    /\ UNCHANGED <<managerVars, windowVars, historyVars, sideVars, started>>

SolutionsCall(t) ==
    /\ tasks[t].kind = "solutions" /\ tasks[t].pc = "call"
    /\ \E o \in ListingOutcomes : WorkerEnds(t, GetSolutions(o))
    /\ UNCHANGED <<managerVars, windowVars, historyVars, sideVars, started>>

\* import_worker reads publish_workflows_check.isChecked() when it runs.
ImportCall(t) ==
    /\ tasks[t].kind = "import" /\ tasks[t].pc = "call"
    /\ \E o \in FlagOutcomes, publish_workflows \in BOOLEAN :
          WorkerEnds(t, ImportSolution(tasks[t].args.path, publish_workflows, o))
    /\ UNCHANGED <<managerVars, windowVars, historyVars, sideVars, started>>

\* export_worker reads managed_export_check.isChecked() when it runs.
ExportCall(t) ==
    /\ tasks[t].kind = "export" /\ tasks[t].pc = "call"
    /\ \E o \in FlagOutcomes, managed \in BOOLEAN :
          WorkerEnds(t, ExportSolution(tasks[t].args.name, tasks[t].args.path, managed, o))
    /\ UNCHANGED <<managerVars, windowVars, historyVars, sideVars, started>>

\* ---- the slots of the finished signal
\* MainWindow.on_environments_refreshed
OnEnvironmentsRefreshed ==
    /\ Delivered("refresh", "finished")
    /\ progress_visible' = FALSE
    /\ IF Head(queue).val = PyTrue
       THEN LET environments == _environments
                combo == [items |-> environments, index |-> IF environments = <<>> THEN 0 ELSE 1]
            IN  /\ environment_combo' = combo
                /\ current_environment' = AfterComboChange("", combo, current_environment)
       ELSE UNCHANGED <<environment_combo, current_environment>>
    /\ UNCHANGED <<managerVars, export_solution_combo, worker, historyVars, sideVars, started>>

\* The slots that only hide the progress bar and report:
\* on_environment_connected, on_authentication_complete, on_import_complete,
\* on_export_complete.
OnEnvironmentConnected ==
    /\ Delivered("connect", "finished")
    /\ progress_visible' = FALSE
    /\ UNCHANGED <<managerVars, current_environment, environment_combo, export_solution_combo,
                   worker, historyVars, sideVars, started>>

OnAuthenticationComplete ==
    /\ Delivered("auth", "finished")
    /\ progress_visible' = FALSE
    /\ UNCHANGED <<managerVars, current_environment, environment_combo, export_solution_combo,
                   worker, historyVars, sideVars, started>>

OnImportComplete ==
    /\ Delivered("import", "finished")
    /\ progress_visible' = FALSE
    /\ UNCHANGED <<managerVars, current_environment, environment_combo, export_solution_combo,
                   worker, historyVars, sideVars, started>>

OnExportComplete ==
    /\ Delivered("export", "finished")
    /\ progress_visible' = FALSE
    /\ UNCHANGED <<managerVars, current_environment, environment_combo, export_solution_combo,
                   worker, historyVars, sideVars, started>>

\* The UniqueName data of the leading records that are mappings: the items
\* added before solution.get raises, or all of them.
RECURSIVE LeadingUniqueNames(_)
LeadingUniqueNames(solutions) ==
    IF solutions = <<>> \/ ~IsDict(Head(solutions)) THEN <<>>
    ELSE <<DictGet(RawRecord(Head(solutions).k), "UniqueName", "")>>
            \o LeadingUniqueNames(Tail(solutions))

\* MainWindow.on_solutions_loaded: len(solutions) raises for a value without
\* a length, before the combo is cleared; iterating a mapping yields its keys,
\* on which .get raises.
OnSolutionsLoaded ==
    /\ Delivered("solutions", "finished")
    /\ progress_visible' = FALSE
    /\ LET solutions == Head(queue).val
       IN  IF IsList(solutions)
           THEN LET names == LeadingUniqueNames(solutions.v)
                IN  export_solution_combo' =
                        [items |-> names, index |-> IF names = <<>> THEN 0 ELSE 1]
           ELSE IF IsDict(solutions)
           THEN export_solution_combo' = NoCombo
           ELSE UNCHANGED export_solution_combo
    /\ UNCHANGED <<managerVars, current_environment, environment_combo, worker, historyVars,
                   sideVars, started>>

NextApp ==
    \/ MainWindowRefreshEnvironments
    \/ ConnectToEnvironment
    \/ MainWindowAuthenticate
    \/ ListSolutions
    \/ \E file_path \in {"", "/in/sol_a.zip"} : MainWindowImportSolution(file_path)
    \/ \E export_path \in {"", "/out"} : MainWindowExportSolution(export_path)
    \/ \E i \in DOMAIN environment_combo.items : UserSelectEnvironment(i)
    \/ \E i \in DOMAIN export_solution_combo.items : UserSelectSolution(i)
    \/ OnWorkerError
    \/ OnEnvironmentsRefreshed
    \/ OnEnvironmentConnected
    \/ OnAuthenticationComplete
    \/ OnSolutionsLoaded
    \/ OnImportComplete
    \/ OnExportComplete
    \/ \E t \in TaskIds :
          \/ RefreshCall(t) \/ RefreshReset(t) \/ RefreshLoop(t)
          \/ ConnectCall(t) \/ ConnectAssign(t)
          \/ AuthCall(t) \/ SolutionsCall(t) \/ ImportCall(t) \/ ExportCall(t)
          \/ WorkerEmit(t)

\* ------------------------------------------------ reads of the directory
\* The catalog refresh_environments builds from a listing of records.
CatalogAtoms == ObjAtoms
Catalog(raw) == [i \in 1..Len(raw) |-> PowerPlatformEnvironment(RawRecord(raw[i]))]
Queries == {"", "prod", "PROD", "us", "xyz"}

\* The application at rest after a refresh of some listing, with the first
\* environment connected to or none, and a query to search for.
InitDirectory ==
    /\ \E raw \in SeqsUpTo(CatalogAtoms, MaxCatalog) : _environments = Catalog(raw)
    /\ environment_combo =
          [items |-> _environments, index |-> IF _environments = <<>> THEN 0 ELSE 1]
    /\ current_environment = ComboCurrentData(environment_combo)
    /\ _current_environment \in {NoEnvironment, current_environment}
    /\ export_solution_combo = NoCombo
    /\ progress_visible = FALSE
    /\ worker = 1
    /\ tasks = [t \in TaskIds |-> IdleTask]
    /\ queue = <<>>
    /\ refreshed_members = {_environments[i] : i \in DOMAIN _environments}
    /\ started = IF _current_environment = NoEnvironment THEN 1 ELSE 2
    /\ d_query \in Queries
    /\ d_pc = "start"
    /\ d_result = Returned(PyNone)

\* EnvironmentManager.search_environments(d_query) returns or raises.
DirectorySearch ==
    /\ d_pc = "start"
    /\ d_result' = SearchEnvironments(_environments, d_query)
    /\ d_pc' = "searched"
    /\ UNCHANGED <<d_query, facadeVars, appVars>>

\* EnvironmentManager.get_environment_summary() returns.
DirectorySummary ==
    /\ d_pc = "start"
    /\ d_result' = GetEnvironmentSummary(_environments)
    /\ d_pc' = "summarised"
    /\ UNCHANGED <<d_query, facadeVars, appVars>>

NextDirectory == DirectorySearch \/ DirectorySummary

InitDirectoryRead == InitDirectory /\ FacadeIdle
SpecDirectory == InitDirectoryRead /\ [][NextDirectory]_vars

\* One facade call from each of its inputs, the application left as built.
InitFacadeCall == InitFacade /\ InitApp /\ DirectoryIdle
SpecFacade == InitFacadeCall /\ [][NextFacade]_vars

\* The application from its construction on.
Init == InitApp /\ FacadeIdle /\ DirectoryIdle
Next == NextApp
Spec == Init /\ [][Next]_vars

\* The next step of the worker thread of task t.
WorkerStep(t) ==
    \/ RefreshCall(t) \/ RefreshReset(t) \/ RefreshLoop(t)
    \/ ConnectCall(t) \/ ConnectAssign(t)
    \/ AuthCall(t) \/ SolutionsCall(t) \/ ImportCall(t) \/ ExportCall(t)
    \/ WorkerEmit(t)

\* The application with every started worker thread scheduled: a thread that
\* can take its next step takes it, and subprocess.run returns or raises by
\* the timeout it was given.
WorkersScheduled == \A t \in TaskIds : WF_vars(WorkerStep(t))
SpecLive == Init /\ [][Next]_vars /\ WorkersScheduled

\* ------------------------------------------------- claims about the facade
\* The external call of the facade call under check timed out.
FacadeTimedOut == f_outcome.started /\ f_outcome.runtime > FacadeTimeout(f_op)

\* JSON texts over the tokens, by the grammar: an atom, or a bracketed,
\* comma-separated list of JSON texts.
RECURSIVE IsJson(_), IsElements(_)
IsJson(s) ==
    \/ Len(s) = 1 /\ s[1] \in AtomTokens
    \/ /\ Len(s) >= 2
       /\ s[1] = LB
       /\ s[Len(s)] = RB
       /\ (Len(s) = 2 \/ IsElements(SubSeq(s, 2, Len(s) - 1)))
IsElements(s) ==
    \/ IsJson(s)
    \/ \E i \in 1..Len(s) :
          /\ s[i] = COMMA
          /\ IsJson(SubSeq(s, 1, i - 1))
          /\ IsElements(SubSeq(s, i + 1, Len(s)))

\* The text of a value: an atom's token, or the bracketed texts of a list's
\* elements with commas between them.
RECURSIVE Render(_), RenderElements(_)
Render(x) ==
    IF x.k = "arr" THEN <<LB>> \o RenderElements(x.v) \o <<RB>> ELSE <<x.k>>
RenderElements(items) ==
    IF items = <<>> THEN <<>>
    ELSE IF Len(items) = 1 THEN Render(items[1])
    ELSE Render(items[1]) \o <<COMMA>> \o RenderElements(Tail(items))

\* The arrays the round trip is checked over: up to MaxElements elements, each
\* an atom or a list of up to MaxElements atoms.
MaxElements == (MaxTokens - 1) \div 2
AtomValues == {Val(a, <<>>) : a \in AtomTokens}
ElementValues == AtomValues \cup {PyList(l) : l \in SeqsUpTo(AtomValues, MaxElements)}
ArrayTexts == {<<l, Render(PyList(l))>> : l \in SeqsUpTo(ElementValues, MaxElements)}

\* C5: every result run_command returns has success true iff the process ran
\* to its end within the timeout with exit code zero; a process that exceeds
\* the timeout makes run_command return, not raise, the fixed result
\* success=false, returncode=-1, stdout empty, stderr "Command timed out".
C5_RunCommandResult ==
    f_pc # "start" =>
        /\ ~f_cmd.raised =>
              f_cmd.res.success = (~FacadeTimedOut /\ f_outcome.rc = 0 /\ f_cmd.res.returncode = 0)
        /\ FacadeTimedOut =>
              /\ ~f_cmd.raised
              /\ ~f_cmd.res.success
              /\ f_cmd.res.returncode = -1
              /\ f_cmd.res.stdout = <<>>
              /\ f_cmd.res.stderr = "Command timed out"

C5_Witness ==
    /\ f_pc = "ran"
    /\ f_op = "export_solution"
    /\ f_outcome.runtime = 400
    /\ f_outcome.rc = 0
    /\ f_cmd.res.returncode = -1

\* C6 as stated: no facade operation ever raises once the facade is built.
C6_NeverRaises == f_pc = "done" => ~f_result.raised

\* What an operation returns when its call did not succeed.
FailureValue(op) ==
    IF op \in ListingOps THEN PyList(<<>>)
    ELSE IF op = "get_current_environment" THEN PyNone
    ELSE PyFalse

\* The process was started and the call did not succeed: a timeout, a non-zero
\* exit, or stdout that is not JSON where JSON is decoded.
FacadeAbsorbedFailure ==
    /\ f_outcome.started
    /\ \/ FacadeTimedOut
       \/ f_outcome.rc # 0
       \/ f_op \in DecodeOps /\ ~IsJson(f_outcome.out)

\* C6 (amended): a facade operation raises exactly when the process could not
\* be started; for a timeout, a non-zero exit or bad JSON it returns false,
\* the empty list or None.
C6_RaisesOnlyWhenNotStarted ==
    f_pc = "done" =>
        /\ f_result.raised <=> ~f_outcome.started
        /\ FacadeAbsorbedFailure => f_result = Returned(FailureValue(f_op))

C6_Witness ==
    /\ f_pc = "done"
    /\ f_op = "import_solution"
    /\ FacadeTimedOut
    /\ f_result = Returned(PyFalse)

\* C7: with exit code 0 and stdout that is not JSON, get_environments and
\* get_solutions return the empty list and do not raise; they return the same
\* empty list when the command result is not successful.
C7_MalformedListingIsEmpty ==
    (f_pc = "done" /\ f_op \in ListingOps /\ f_outcome.started) =>
        /\ (~FacadeTimedOut /\ f_outcome.rc = 0 /\ ~IsJson(f_outcome.out))
              => f_result = Returned(PyList(<<>>))
        /\ (FacadeTimedOut \/ f_outcome.rc # 0) => f_result = Returned(PyList(<<>>))

C7_Witness ==
    /\ f_pc = "done"
    /\ f_op = "get_solutions"
    /\ f_outcome.rc = 0
    /\ f_outcome.out = <<LB, "A", COMMA, RB>>
    /\ f_result = Returned(PyList(<<>>))

\* C8: with exit code 0 and stdout the text of an array, get_environments and
\* get_solutions return the array: as many elements, in the text's order, each
\* equal to the value written.
C8_ListingRoundTrip ==
    (f_pc = "done" /\ f_op \in ListingOps /\ ~FacadeTimedOut /\ f_outcome.started
        /\ f_outcome.rc = 0) =>
        \A p \in ArrayTexts :
            p[2] = f_outcome.out =>
                /\ f_result = Returned(PyList(p[1]))
                /\ Len(f_result.val.v) = Len(p[1])

C8_Witness ==
    /\ f_pc = "done"
    /\ f_op = "get_environments"
    /\ f_outcome.out = <<LB, "B", COMMA, "N", RB>>
    /\ f_result.val.v = <<Val("B", <<>>), Val("N", <<>>)>>

\* C11: __init__ builds the facade only if the version probe, given 10
\* seconds, exits with code zero; when the executable is not found, the probe
\* times out or exits non-zero, __init__ raises PACCLIError; and no operation
\* makes the probe again: an operation never raises PACCLIError, and what it
\* does is settled by its own call, whatever the probe's output was.
C11_ConstructionProbe ==
    /\ f_init.pc = "built" =>
          (f_probe.started /\ f_probe.runtime <= 10 /\ f_probe.rc = 0)
    /\ f_init.pc = "failed" <=>
          (f_init.pc # "new"
             /\ (~f_probe.started \/ f_probe.runtime > 10 \/ f_probe.rc # 0))
    /\ f_init.pc = "failed" => (f_init.exc \in PACCLIErrorMsgs /\ f_pc = "start")
    /\ f_pc # "start" => f_init = Constructed
    /\ (f_pc = "done" /\ f_result.raised) => f_result.exc \notin PACCLIErrorMsgs

C11_Witness ==
    /\ f_init = [pc |-> "failed", exc |-> ProbeTimedOutMsg]
    /\ f_probe.runtime = 45
    /\ f_probe.rc = 0
    /\ f_pc = "start"

\* C14: the version probe is given 10 seconds; get_environments,
\* get_solutions, select_environment, get_current_environment and authenticate
\* give run_command 30 seconds, export_solution 300 and import_solution 600:
\* the call comes back as timed out exactly when the process would run longer
\* than that, and an operation returning the success flag returns True for a
\* process that exits with zero within it.
C14_TimeoutPerOperation ==
    LET limit == CASE f_op = "export_solution" -> 300
                   [] f_op = "import_solution" -> 600
                   [] OTHER -> 30
    IN  /\ (f_init.pc # "new" /\ f_probe.started) =>
              (f_init.exc = ProbeTimedOutMsg <=> f_probe.runtime > 10)
        /\ (f_pc \in {"ran", "done"} /\ f_outcome.started) =>
              /\ ~f_cmd.raised
              /\ (f_cmd.res.returncode = -1 /\ f_cmd.res.stderr = "Command timed out")
                    <=> f_outcome.runtime > limit
        /\ (f_pc = "done" /\ f_outcome.started /\ f_op \in FlagOps /\ f_outcome.rc = 0) =>
              (f_result = Returned(PyTrue) <=> f_outcome.runtime <= limit)

C14_Witness ==
    /\ f_pc = "done"
    /\ f_op = "import_solution"
    /\ f_outcome.runtime = 600
    /\ f_outcome.rc = 0
    /\ f_result = Returned(PyTrue)

\* C15: export_solution runs pac solution export --name <n> --path <p>, with
\* --managed appended iff managed is true; import_solution runs pac solution
\* import --path <p>, with --publish-changes appended iff publish_workflows is
\* true; each returns the success flag of the command result.
C15_ExportImportCommands ==
    (f_pc \in {"ran", "done"} /\ ~f_cmd.raised) =>
        /\ f_op = "export_solution" =>
              f_cmd.res.command =
                  Join(<<"pac", "solution", "export", "--name", f_args.name,
                         "--path", f_args.path>>
                       \o (IF f_args.flag THEN <<"--managed">> ELSE <<>>))
        /\ f_op = "import_solution" =>
              f_cmd.res.command =
                  Join(<<"pac", "solution", "import", "--path", f_args.path>>
                       \o (IF f_args.flag THEN <<"--publish-changes">> ELSE <<>>))
        /\ (f_pc = "done" /\ f_op \in {"export_solution", "import_solution"}) =>
              f_result = Returned(PyBool(f_cmd.res.success))

C15_Witness ==
    /\ f_pc = "done"
    /\ f_op = "export_solution"
    /\ ~f_args.flag
    /\ f_cmd.res.command =
          <<"pac", " ", "solution", " ", "export", " ", "--name", " ", "sol_a", " ",
            "--path", " ", "/out">>
    /\ f_cmd.res.success
    /\ f_result = Returned(PyTrue)

\* C19: get_current_environment returns the value decoded from stdout when
\* the command succeeded with JSON on stdout, and returns None, raising
\* nothing, when the command result is a failure (timeout, non-zero exit) or
\* stdout is not JSON.
C19_CurrentEnvironmentOrNone ==
    (f_pc = "done" /\ f_op = "get_current_environment" /\ f_outcome.started) =>
        /\ ~f_result.raised
        /\ f_cmd.res.command = <<"pac", " ", "org", " ", "who", " ", "--json">>
        /\ IF ~FacadeTimedOut /\ f_outcome.rc = 0 /\ IsJson(f_outcome.out)
           THEN Render(f_result.val) = f_outcome.out
           ELSE f_result = Returned(PyNone)

C19_Witness ==
    /\ f_pc = "done"
    /\ f_op = "get_current_environment"
    /\ f_outcome.rc = 0
    /\ f_outcome.out = <<LB, "A", RB>>
    /\ f_result = Returned(PyList(<<Val("A", <<>>)>>))

\* --------------------------------------------- claims about the application
\* C1: a worker thread emits nothing before its operation ends and exactly one
\* signal when it has ended: finished with the operation's return value if it
\* returned, error with str(exception) if it raised.
C1_ExactlyOneTerminalSignal ==
    \A t \in TaskIds :
        /\ tasks[t].pc # "done" => tasks[t].emitted = <<>>
        /\ tasks[t].pc = "done" =>
              /\ Len(tasks[t].emitted) = 1
              /\ tasks[t].emitted[1] =
                    IF tasks[t].op.raised
                    THEN [sig |-> "error", val |-> PyNone, msg |-> tasks[t].op.exc]
                    ELSE [sig |-> "finished", val |-> tasks[t].op.val, msg |-> ""]
        /\ Cardinality({i \in DOMAIN queue : queue[i].task = t}) <= 1

C1_Witness ==
    \E t \in TaskIds :
        /\ tasks[t].kind = "solutions"
        /\ tasks[t].pc = "done"
        /\ tasks[t].op = Raised(FileNotFoundMsg)
        /\ tasks[t].emitted = <<[sig |-> "error", val |-> PyNone, msg |-> FileNotFoundMsg]>>

\* C2 as stated: the catalog and the current-environment reference change only
\* in a step of the presentation context, that is, in a slot taking a queued
\* signal.
C2_WrittenOnlyByCallbacks ==
    [][(_environments' # _environments \/ _current_environment' # _current_environment)
          => (queue # <<>> /\ queue' = Tail(queue))]_vars

\* C3 as stated: a refresh_environments that returns False has emptied
\* nothing and appended nothing: it has not changed the catalog's contents.
C3_FailedRefreshKeepsCatalog ==
    \A t \in TaskIds :
        (tasks[t].kind = "refresh" /\ tasks[t].pc = "emit" /\ tasks[t].op = Returned(PyFalse))
            => ~tasks[t].wrote

\* C4: the step in which select_environment returns leaves the selection as it
\* was and returns False when the remote call did not succeed, and makes the
\* argument the selection and returns True when it did; the selection changes
\* in no other step.
C4_SelectOnlyOnSuccess ==
    [][/\ \A t \in TaskIds :
            (tasks[t].kind = "connect" /\ tasks[t].pc \in {"call", "assign"}
                /\ tasks'[t].pc = "emit") =>
                IF tasks'[t].remote = "ok"
                THEN /\ _current_environment' = tasks'[t].env
                     /\ tasks'[t].op = Returned(PyTrue)
                ELSE /\ _current_environment' = _current_environment
                     /\ tasks'[t].op = Returned(PyFalse)
       /\ _current_environment' # _current_environment =>
            \E t \in TaskIds :
                /\ tasks[t].kind = "connect"
                /\ tasks[t].remote = "ok"
                /\ _current_environment' = tasks[t].env]_vars

C4_Witness ==
    \E t \in TaskIds :
        /\ tasks[t].kind = "connect"
        /\ tasks[t].pc = "emit"
        /\ tasks[t].remote = "nonzero"
        /\ tasks[t].op = Returned(PyFalse)
        /\ _current_environment # NoEnvironment
        /\ _current_environment # tasks[t].env

\* C9: the current environment, when there is one, is an environment that a
\* refresh had put in the catalog.
C9_SelectionWasCatalogMember ==
    _current_environment # NoEnvironment => _current_environment \in refreshed_members

C9_Witness ==
    /\ _current_environment # NoEnvironment
    /\ \A i \in DOMAIN _environments : _environments[i] # _current_environment
    /\ \A t \in TaskIds : tasks[t].kind = "none"

\* C10: no step of refresh_environments, in a refresh that succeeds or fails,
\* changes the current-environment reference.
C10_RefreshKeepsSelection ==
    [][\A t \in TaskIds :
          (tasks[t].kind = "refresh" /\ tasks[t].pc \in {"call", "reset", "loop"}
              /\ tasks'[t] # tasks[t])
              => _current_environment' = _current_environment]_vars

C10_Witness ==
    \E t \in TaskIds :
        /\ tasks[t].kind = "refresh"
        /\ tasks[t].pc = "emit"
        /\ tasks[t].op = Returned(PyTrue)
        /\ _environments # <<>>
        /\ _current_environment # NoEnvironment
        /\ \A i \in DOMAIN _environments : _environments[i] # _current_environment

\* C18: a round of the refresh loop over a record appends its environment,
\* with created_time absent when the record has no CreatedTime or one that is
\* in none of the three formats, and the loop goes on; the loop that has gone
\* through every record makes refresh_environments return True.
C18_BadTimestampKeepsRecord ==
    [][\A t \in TaskIds :
          (tasks[t].kind = "refresh" /\ tasks[t].pc = "loop" /\ tasks'[t] # tasks[t]) =>
              LET records == tasks[t].data.v
                  i == tasks[t].idx + 1
              IN  IF i <= Len(records)
                  THEN IsDict(records[i]) =>
                          LET raw == RawRecord(records[i].k)
                              last == _environments'[Len(_environments')]
                          IN  /\ Len(_environments') = Len(_environments) + 1
                              /\ last.url = raw.EnvironmentUrl
                              /\ raw.CreatedTime \notin
                                    {"2024-01-15T10:30:00.123456Z", "2024-01-15T10:30:00Z",
                                     "2024-01-15 10:30:00"}
                                    => last.created_time = NoneStr
                              /\ tasks'[t].pc = "loop"
                              /\ tasks'[t].idx = i
                  ELSE /\ tasks'[t].pc = "emit"
                       /\ tasks'[t].op = Returned(PyTrue)
                       /\ _environments' = _environments]_vars

C18_Witness ==
    \E t \in TaskIds :
        /\ tasks[t].kind = "refresh"
        /\ tasks[t].pc = "emit"
        /\ tasks[t].op = Returned(PyTrue)
        /\ Len(_environments) = 2
        /\ _environments[1].created_time = "datetime(2024, 1, 15, 10, 30, 0)"
        /\ _environments[2].name = "dev-us"
        /\ _environments[2].created_time = NoneStr

\* C20 as stated: whenever every refresh_environments call made so far has
\* returned, no two environments of the catalog have the same name.
C20_UniqueNames ==
    (\A t \in TaskIds : tasks[t].kind = "refresh" => tasks[t].pc \in {"emit", "done"}) =>
        \A i, j \in DOMAIN _environments :
            _environments[i].name = _environments[j].name => i = j

\* C12 as stated: a signal reaches a slot only from the thread created last,
\* the one MainWindow.worker holds; a thread replaced there while it was still
\* running has its finished or error signal delivered to no slot.
C12_OnlyLatestDelivered ==
    [][(queue # <<>> /\ queue' = Tail(queue)) => Head(queue).task = worker]_vars

\* C13: with the worker threads scheduled fairly, every worker thread that has
\* been started (refresh, connect, authenticate, list solutions, import,
\* export) eventually emits its one terminal signal, however long the
\* external process would run.
C13_EveryTaskEnds ==
    \A t \in TaskIds :
        (tasks[t].kind # "none" /\ tasks[t].pc # "done")
            ~> (tasks[t].pc = "done" /\ Len(tasks[t].emitted) = 1)

C13_Witness ==
    \E t \in TaskIds :
        /\ tasks[t].kind = "export"
        /\ tasks[t].pc = "done"
        /\ tasks[t].op = Returned(PyFalse)
        /\ Len(tasks[t].emitted) = 1

\* ------------------------------------------- claims about directory reads
\* An environment's name or display name, when it is a string, contains the
\* query without regard to case.
NameMatches(env, query) ==
    \/ env.name # NoneStr /\ Contains(Lower(Chars(env.name)), Lower(Chars(query)))
    \/ env.display_name # NoneStr
          /\ Contains(Lower(Chars(env.display_name)), Lower(Chars(query)))

\* C16 as stated: for every catalog a refresh can build, records with a null
\* or missing name included, and every query, search_environments returns the
\* environments whose name or display name contains the query ignoring case,
\* in catalog order; all of them for the empty query.
C16_SearchReturnsMatches ==
    d_pc = "searched" =>
        /\ d_result = Returned(PyList(SelectSeq(_environments,
                                                LAMBDA env : NameMatches(env, d_query))))
        /\ d_query = "" => d_result = Returned(PyList(_environments))

\* The label an environment is counted under for one field.
LabelsOf(field) ==
    [i \in DOMAIN _environments |->
        IF _environments[i][field] \in {NoneStr, ""} THEN "Unknown"
        ELSE _environments[i][field]]

\* counts has one entry per label, the number of environments carrying it.
CountsLabels(counts, labels) ==
    /\ DOMAIN counts = {labels[i] : i \in DOMAIN labels}
    /\ \A l \in DOMAIN counts :
          counts[l] = Cardinality({i \in DOMAIN labels : labels[i] = l})

\* C17: the step in which get_environment_summary returns gives total, the
\* catalog's length, and for type, region and state one count per distinct
\* value, with an empty or absent value counted under "Unknown"; it changes
\* neither the catalog nor the selection.
C17_SummaryCounts ==
    [][d_pc' = "summarised" =>
          /\ d_result'.total = Len(_environments)
          /\ CountsLabels(d_result'.by_type, LabelsOf("environment_type"))
          /\ CountsLabels(d_result'.by_region, LabelsOf("region"))
          /\ CountsLabels(d_result'.by_state, LabelsOf("state"))
          /\ _environments' = _environments
          /\ _current_environment' = _current_environment]_vars

C17_Witness ==
    /\ d_pc = "summarised"
    /\ Len(_environments) = 3
    /\ d_result.total = 3
    /\ d_result.by_type = [k \in {"Sandbox", "Unknown"} |-> IF k = "Sandbox" THEN 2 ELSE 1]
    /\ _current_environment # NoEnvironment

\* ------------------------------------- further claims about the application
\* The order of a refresh or connect worker's positions: the facade call, the
\* writes to the directory, the emission.
StepOrder ==
    {<<"call", "reset">>, <<"call", "assign">>, <<"call", "emit">>, <<"reset", "loop">>,
     <<"loop", "loop">>, <<"loop", "emit">>, <<"assign", "emit">>, <<"emit", "done">>}

\* C21: within one refresh or connect operation the steps come in order: the
\* external command has returned and its output is decoded before the catalog
\* or the selection is written, and the terminal signal is emitted after the
\* operation's last write.
C21_StepsInOrder ==
    [][/\ \A t \in TaskIds :
            (tasks[t].kind \in {"refresh", "connect"} /\ tasks[t].pc # "done"
                /\ tasks'[t] # tasks[t]) =>
                /\ <<tasks[t].pc, tasks'[t].pc>> \in StepOrder
                /\ tasks'[t].pc \in {"reset", "assign"} => tasks'[t].remote # "none"
                /\ tasks[t].pc = "call" => UNCHANGED <<managerVars, queue>>
                /\ tasks[t].pc = "emit" =>
                      (Len(queue') = Len(queue) + 1 /\ UNCHANGED managerVars)
       /\ (_environments' # _environments \/ _current_environment' # _current_environment) =>
            \E t \in TaskIds :
                /\ tasks'[t] # tasks[t]
                /\ tasks[t].pc \in {"reset", "loop", "assign"}
                /\ tasks[t].remote # "none"
                /\ tasks[t].emitted = <<>>
                /\ queue' = queue]_vars

C21_Witness ==
    \E t \in TaskIds :
        /\ tasks[t].kind = "refresh"
        /\ tasks[t].pc = "done"
        /\ tasks[t].op = Returned(PyTrue)
        /\ Len(_environments) = 2
        /\ queue # <<>>
        /\ Head(queue).task = t

\* The catalog one refresh leaves, running alone, for the decoded listing d:
\* the conversions of the records up to the first element that is no object.
ConvertedListing(d) ==
    IF ~IsList(d) THEN <<>>
    ELSE LET n == CHOOSE n \in 0..Len(d.v) :
                      /\ \A i \in 1..n : IsDict(d.v[i])
                      /\ n = Len(d.v) \/ ~IsDict(d.v[n + 1])
         IN  [i \in 1..n |-> PowerPlatformEnvironment(RawRecord(d.v[i].k))]

CatalogsOfOneListing ==
    {ConvertedListing(GetEnvironments(o).val) : o \in {x \in ListingOutcomes : ~GetEnvironments(x).raised}}

\* C22 as stated: once every refresh has finished, overlapping or not, the
\* catalog is the converted output of exactly one listing call, in its order,
\* with no entry of another call and no entry twice.
C22_CatalogOfOneListing ==
    (\A t \in TaskIds : tasks[t].kind = "refresh" => tasks[t].pc \in {"emit", "done"}) =>
        _environments \in CatalogsOfOneListing

\* A refresh that has emptied the catalog and has a record yet to append.
Filling(t) ==
    /\ tasks[t].kind = "refresh" /\ tasks[t].pc = "loop"
    /\ IsList(tasks[t].data)
    /\ tasks[t].idx < Len(tasks[t].data.v)
    /\ IsDict(tasks[t].data.v[tasks[t].idx + 1])

\* The step in which on_environments_refreshed reads the catalog.
HandlerReadsCatalog ==
    /\ queue # <<>>
    /\ Head(queue).kind = "refresh" /\ Head(queue).sig = "finished"
    /\ Head(queue).val = PyTrue
    /\ queue' = Tail(queue)

\* C23 as stated: a catalog read on the presentation context, the one in
\* on_environments_refreshed included, never observes the emptied or partly
\* filled catalog of a refresh that is still in progress.
C23_ReadsSeeWholeCatalog ==
    [][HandlerReadsCatalog => ~\E t \in TaskIds : Filling(t)]_vars

\* The listing command itself failed: non-zero exit, timeout, or stdout that
\* is no JSON text.
ListingFailed(o) ==
    /\ o.started
    /\ \/ o.rc # 0
       \/ o.runtime > DefaultTimeout
       \/ ~JsonLoads(o.out).ok

\* The decoded listing makes the loop of refresh_environments raise.
LoopRaises(env_data) ==
    ~(IsList(env_data) /\ \A i \in DOMAIN env_data.v : IsDict(env_data.v[i]))

\* C24: when the listing command fails (non-zero exit, timeout, stdout that is
\* no JSON) get_environments gives the empty list, and refresh_environments
\* then replaces the catalog with the empty catalog and returns True; it
\* returns False only when an exception is raised inside it.
C24_FailedListingEmptiesCatalog ==
    [][/\ \A o \in ListingOutcomes :
            ListingFailed(o) => GetEnvironments(o) = Returned(PyList(<<>>))
       /\ \A t \in TaskIds :
            (tasks[t].kind = "refresh" /\ tasks'[t] # tasks[t]) =>
                /\ (tasks[t].pc = "call" /\ tasks'[t].remote \in {"nonzero", "timeout"}) =>
                      (tasks'[t].pc = "reset" /\ tasks'[t].data = PyList(<<>>))
                /\ (tasks[t].pc = "reset" /\ tasks[t].data = PyList(<<>>)) =>
                      (tasks'[t].pc = "loop" /\ _environments' = <<>>)
                /\ (tasks[t].pc = "loop" /\ tasks[t].data = PyList(<<>>)) =>
                      /\ tasks'[t].pc = "emit"
                      /\ tasks'[t].op = Returned(PyTrue)
                      /\ _environments' = _environments
                /\ (tasks'[t].pc = "emit" /\ tasks'[t].op = Returned(PyFalse)) =>
                      \/ tasks[t].pc = "call" /\ tasks'[t].remote = "notstarted"
                      \/ tasks[t].pc = "loop" /\ LoopRaises(tasks[t].data)]_vars

C24_Witness ==
    \E t \in TaskIds :
        /\ tasks[t].kind = "refresh"
        /\ tasks[t].pc = "emit"
        /\ tasks[t].remote = "timeout"
        /\ tasks[t].wrote
        /\ tasks[t].op = Returned(PyTrue)
        /\ _environments = <<>>

\* The step in which on_environment_connected reports "Connected to ...".
HandlerReportsConnected ==
    /\ queue # <<>>
    /\ Head(queue).kind = "connect" /\ Head(queue).sig = "finished"
    /\ Head(queue).val = PyTrue
    /\ queue' = Tail(queue)

\* C25 as stated: when a connect has succeeded and on_environment_connected
\* reports the connection, the environment it names, the window's
\* current_environment, is the one the directory records as current.
C25_ReportedIsCurrent ==
    [][HandlerReportsConnected => current_environment = _current_environment]_vars

\* Some 'org select' has succeeded: its worker is about to record the
\* selection or has recorded it (the directory never clears the selection).
SomeSelectSucceeded ==
    \/ _current_environment # NoEnvironment
    \/ \E u \in TaskIds : tasks[u].kind = "connect" /\ tasks[u].pc = "assign"

\* C26 as stated: a solution list, import or export command is issued to the
\* external tool only after some 'org select' has completed successfully.
C26_SolutionAfterSelect ==
    [][\A t \in TaskIds :
          (tasks[t].kind \in {"solutions", "import", "export"} /\ tasks[t].pc = "call"
              /\ tasks'[t].pc # "call") => SomeSelectSucceeded]_vars

\* A triggered task whose terminal signal has not been delivered yet.
Outstanding(t) == tasks[t].kind # "none"

\* C27 as stated: the progress bar is shown whenever at least one triggered
\* task has not yet delivered its terminal signal, and is hidden only when no
\* task is outstanding.
C27_BusyWhileOutstanding ==
    (\E t \in TaskIds : Outstanding(t)) => progress_visible
====
